---------------------------- MODULE Spec2Model ----------------------------
(***************************************************************************)
(* A model of the nu_iox query client (src/nu_iox/src/iox): the Nuclient   *)
(* state machine (nuclient.rs), the error-record extraction (nuerror.rs)   *)
(* and the ioxsql / ioxnamespace command paths (sql.rs, namespace.rs).     *)
(*                                                                         *)
(* Text is modelled as a sequence of one-character strings, so that the    *)
(* substring searches of nuerror.rs and the line structure of rendered     *)
(* output are computed, not assumed.  Flat(s) turns such a sequence into   *)
(* a TLA+ string, for comparison with literals.                            *)
(***************************************************************************)
EXTENDS Integers, Sequences, FiniteSets, TLC

VARIABLES
    repl,           \* Spec: the Nuclient
    last,           \* Spec: the last operation on repl, its inputs and outcome
    b_data,         \* SpecBuild: the &str handed to NuIoxError::build
    b_out,          \* SpecBuild: NotBuilt before the call, then its outcome
    s_batches,      \* SpecSummary: the batches handed to row_summary
    s_out,          \* SpecSummary: NoSummary before the call, then its result
    inv,            \* SpecBridge: the command invocations, each with its own
                    \* position, runtime, connection and client
    runtimes,       \* SpecBridge: the number of runtimes created so far
    connections     \* SpecBridge: the number of connections built so far

vars == <<repl, last, b_data, b_out, s_batches, s_out, inv, runtimes, connections>>

(***************************************************************************)
(* Bounds of the model.                                                    *)
(***************************************************************************)
\* the inputs of NuIoxError::build are concatenations of at most MaxParts
\* pieces (markers and text snippets)
MaxParts == 4

\* a query's stream yields at most MaxBatches items
MaxBatches == 2

\* row_summary is applied to at most MaxSummaryBatches batches of at most
\* MaxRows rows each
MaxSummaryBatches == 3

MaxRows == 4

\* the commands invoked, concurrently or one after the other
MaxInvocations == 2

(***************************************************************************)
(* Text helpers.                                                           *)
(***************************************************************************)
RECURSIVE Flat(_)
Flat(s) ==
    IF s = <<>> THEN "" ELSE s[1] \o Flat(Tail(s))

RECURSIVE Concat(_)
Concat(ss) ==
    IF ss = <<>> THEN <<>> ELSE ss[1] \o Concat(Tail(ss))

\* str::replace(&[chars][..], ""): every character of the set is dropped
RECURSIVE RemoveChars(_, _)
RemoveChars(s, chars) ==
    IF s = <<>> THEN <<>>
    ELSE IF s[1] \in chars THEN RemoveChars(Tail(s), chars)
    ELSE <<s[1]>> \o RemoveChars(Tail(s), chars)

MatchesAt(s, tag, i) ==
    /\ i + Len(tag) - 1 <= Len(s)
    /\ \A k \in 1..Len(tag) : s[i + k - 1] = tag[k]

\* the index of the first occurrence of tag in s, 0 when there is none
FindSubstring(s, tag) ==
    LET hits == {i \in 1..Len(s) : MatchesAt(s, tag, i)}
    IN  IF hits = {} THEN 0
        ELSE CHOOSE i \in hits : \A j \in hits : i <= j

\* nom::bytes::complete::take_until(tag)(s): IResult<&str, &str>, that is
\* Ok((remaining input from the tag on, the text before the tag)), or Err
\* when the tag does not occur.  val[1] is tuple field .0, val[2] is .1.
TakeUntil(tag, s) ==
    LET i == FindSubstring(s, tag)
    IN  IF i = 0 THEN [ok |-> FALSE, val |-> <<>>]
        ELSE [ok |-> TRUE,
              val |-> <<SubSeq(s, i, Len(s)), SubSeq(s, 1, i - 1)>>]

(***************************************************************************)
(* nuerror.rs: the markers and the extraction of an error record.          *)
(***************************************************************************)
DETAILS == <<",", " ", "d", "e", "t", "a", "i", "l", "s", ":", " ">>
MESSAGE == <<",", " ", "m", "e", "s", "s", "a", "g", "e", ":", " ">>
STATUS == <<"s", "t", "a", "t", "u", "s", ":", " ">>

remove_details(s) == TakeUntil(DETAILS, s)

get_message(s) == TakeUntil(MESSAGE, s)

\* a variant of get_header that looks for the marker of get_message
get_header_message_marker(s) == TakeUntil(MESSAGE, s)

get_header(s) == TakeUntil(STATUS, s)

remove_slash_from_string(s) ==
    RemoveChars(s, {"(", ")", ",", "\"", ";", "'"})

remove_colon_from_string(s) == RemoveChars(s, {":"})

Panic == [tag |-> "panic"]

\* NuIoxError::build: each unwrap() of an Err panics
NuIoxError_build(data) ==
    LET r1 == remove_details(data)
    IN  IF ~r1.ok THEN Panic
        ELSE
        LET details == r1.val[2]
            r2 == get_message(details)
        IN  IF ~r2.ok THEN Panic
            ELSE
            LET message0 == r2.val[1]
                remainder == r2.val[2]
                r3 == get_header(remainder)
            IN  IF ~r3.ok THEN Panic
                ELSE
                LET status0 == r3.val[1]
                    header0 == r3.val[2]
                IN  [tag |-> "built",
                     start |-> data,
                     error_type |-> "TableNotFound",
                     header |-> remove_colon_from_string(header0),
                     status |-> status0,
                     message |-> remove_slash_from_string(message0)]

(***************************************************************************)
(* Values: Option<QueryEngine>, Result, record batches.                    *)
(***************************************************************************)
None == [tag |-> "None"]

Remote(db_name) == [tag |-> "Remote", db |-> db_name]

Ok(v) == [ok |-> TRUE, val |-> v]

Err(e) == [ok |-> FALSE, err |-> e]

\* format!("{}", n) of an unsigned integer: its decimal digits
Digit(d) == <<"0", "1", "2", "3", "4", "5", "6", "7", "8", "9">>[d + 1]

RECURSIVE Dec(_)
Dec(n) ==
    IF n < 10 THEN <<Digit(n)>> ELSE Dec(n \div 10) \o <<Digit(n % 10)>>

\* a RecordBatch: column names, a column kind ("flat" arrays, or "nested"
\* ones, which the CSV writer cannot write) and the rows, each one cell
\* per column
RecordBatch(cols, kind, rows) == [cols |-> cols, kind |-> kind, rows |-> rows]

num_rows(b) == Len(b.rows)

(***************************************************************************)
(* The output formatter (influxdb_iox_client::format), as the client uses  *)
(* it: QueryOutputFormat::from_str and QueryOutputFormat::format.          *)
(***************************************************************************)
LowerOf(c) ==
    CASE c = "C" -> "c" [] c = "S" -> "s" [] c = "V" -> "v"
      [] c = "P" -> "p" [] c = "J" -> "j" [] OTHER -> c

to_ascii_lowercase(s) == [i \in 1..Len(s) |-> LowerOf(s[i])]

\* requested_format.parse(): the names are matched ignoring ASCII case
ParseFormat(name) ==
    LET l == Flat(to_ascii_lowercase(name))
    IN  CASE l = "pretty" -> Ok("Pretty")
          [] l = "csv" -> Ok("Csv")
          [] l = "json" -> Ok("Json")
          [] OTHER -> Err([kind |-> "Invalid", name |-> name])

RECURSIVE Join(_, _)
Join(cells, sep) ==
    IF cells = <<>> THEN <<>>
    ELSE IF Len(cells) = 1 THEN cells[1]
    ELSE cells[1] \o sep \o Join(Tail(cells), sep)

RECURSIVE CsvRows(_)
CsvRows(rows) ==
    IF rows = <<>> THEN <<>>
    ELSE Join(rows[1], <<",">>) \o <<"\n">> \o CsvRows(Tail(rows))

\* the CSV writer: the header row once, before the first batch, then the
\* rows of every batch in order
RECURSIVE CsvBatches(_, _)
CsvBatches(batches, first) ==
    IF batches = <<>> THEN <<>>
    ELSE (IF first THEN Join(batches[1].cols, <<",">>) \o <<"\n">> ELSE <<>>)
            \o CsvRows(batches[1].rows)
            \o CsvBatches(Tail(batches), FALSE)

PrettyRow(cells) == <<"|", " ">> \o Join(cells, <<" ", "|", " ">>) \o <<" ", "|", "\n">>

RECURSIVE PrettyRows(_)
PrettyRows(rows) ==
    IF rows = <<>> THEN <<>> ELSE PrettyRow(rows[1]) \o PrettyRows(Tail(rows))

RECURSIVE AllRows(_)
AllRows(batches) ==
    IF batches = <<>> THEN <<>> ELSE batches[1].rows \o AllRows(Tail(batches))

PrettyBorder == <<"+", "-", "+", "\n">>

\* the aligned table (column widths are not modelled)
PrettyBatches(batches) ==
    IF batches = <<>> THEN <<>>
    ELSE PrettyBorder \o PrettyRow(batches[1].cols) \o PrettyBorder
            \o PrettyRows(AllRows(batches)) \o PrettyBorder

JsonRow(cols, cells) ==
    <<"{">> \o Join([i \in 1..Len(cols) |->
                        <<"\"">> \o cols[i] \o <<"\"", ":", "\"">> \o cells[i] \o <<"\"">>],
                    <<",">>) \o <<"}", "\n">>

RECURSIVE JsonRows(_, _)
JsonRows(cols, rows) ==
    IF rows = <<>> THEN <<>>
    ELSE JsonRow(cols, rows[1]) \o JsonRows(cols, Tail(rows))

RECURSIVE JsonBatches(_)
JsonBatches(batches) ==
    IF batches = <<>> THEN <<>>
    ELSE JsonRows(batches[1].cols, batches[1].rows) \o JsonBatches(Tail(batches))

\* output_format.format(batches): fails as a whole, with no text, when the
\* format cannot write a batch
Format(output_format, batches) ==
    CASE output_format = "Csv" ->
            IF \E i \in 1..Len(batches) : batches[i].kind = "nested"
            THEN Err([kind |-> "CsvArrow"])
            ELSE Ok(CsvBatches(batches, TRUE))
      [] output_format = "Pretty" -> Ok(PrettyBatches(batches))
      [] output_format = "Json" -> Ok(JsonBatches(batches))

(***************************************************************************)
(* nuclient.rs: the Nuclient and its operations.  Each operation is an     *)
(* operator from the client (self) and the call's inputs, the gateway's    *)
(* answer among them, to the client afterwards, the returned Result, the   *)
(* gateway requests made and the lines printed.                            *)
(***************************************************************************)
Outcome(self, result, gateway, printed) ==
    [self |-> self, result |-> result, gateway |-> gateway, printed |-> printed]

Nuclient_new(connection) ==
    [namespace_client |-> connection,
     flight_client |-> connection,
     query_engine |-> None,
     output_format |-> "Pretty"]

\* a variant of set_query_engine that keeps an engine already set
set_query_engine_once(self, query_engine) ==
    IF self.query_engine = None
    THEN [self EXCEPT !.query_engine = query_engine]
    ELSE self

set_query_engine(self, query_engine) ==
    [self EXCEPT !.query_engine = query_engine]

use_database(self, db_name) ==
    Outcome(set_query_engine(self, Remote(db_name)), Ok("unit"), <<>>,
            <<"You are now querying the database " \o db_name>>)

\* a variant of set_output_format that falls back to the default format
\* when the name is not recognized
set_output_format_defaulting(self, requested_format) ==
    LET parsed == ParseFormat(requested_format)
    IN  IF parsed.ok
        THEN Outcome([self EXCEPT !.output_format = parsed.val], Ok("unit"), <<>>, <<>>)
        ELSE Outcome([self EXCEPT !.output_format = "Pretty"],
                     Err([kind |-> "SettingFormat",
                          requested_format |-> requested_format,
                          source |-> parsed.err]),
                     <<>>, <<>>)

set_output_format(self, requested_format) ==
    LET parsed == ParseFormat(requested_format)
    IN  IF parsed.ok
        THEN Outcome([self EXCEPT !.output_format = parsed.val], Ok("unit"), <<>>, <<>>)
        ELSE Outcome(self,
                     Err([kind |-> "SettingFormat",
                          requested_format |-> requested_format,
                          source |-> parsed.err]),
                     <<>>, <<>>)

get_results(self, batches) ==
    LET formatted == Format(self.output_format, batches)
    IN  IF formatted.ok THEN Ok(formatted.val)
        ELSE Err([kind |-> "FormattingResults", source |-> formatted.err])

\* the result of print_results, and what it prints
print_results(self, batches) ==
    LET formatted == Format(self.output_format, batches)
    IN  IF formatted.ok
        THEN [result |-> Ok("unit"), printed |-> <<Flat(formatted.val)>>]
        ELSE [result |-> Err([kind |-> "FormattingResults", source |-> formatted.err]),
              printed |-> <<>>]

RECURSIVE SumRows(_)
SumRows(batches) ==
    IF batches = <<>> THEN 0 ELSE num_rows(batches[1]) + SumRows(Tail(batches))

\* a variant of row_summary whose first comparison is off by one
row_summary_off_by_one(batches) ==
    LET total_rows == SumRows(batches)
    IN  IF total_rows >= 1 THEN Flat(Dec(total_rows)) \o " rows"
        ELSE IF total_rows = 0 THEN "no rows"
        ELSE "1 row"

row_summary(batches) ==
    LET total_rows == SumRows(batches)
    IN  IF total_rows > 1 THEN Flat(Dec(total_rows)) \o " rows"
        ELSE IF total_rows = 0 THEN "no rows"
        ELSE "1 row"

\* a variant of the loop that ends at an error with the batches pulled so far
RECURSIVE PullAll_partial(_, _, _)
PullAll_partial(stream, batches, pulls) ==
    IF stream = <<>> THEN [result |-> Ok(batches), pulls |-> pulls + 1]
    ELSE IF ~stream[1].ok
    THEN [result |-> Ok(batches), pulls |-> pulls + 1]
    ELSE PullAll_partial(Tail(stream), Append(batches, stream[1].val), pulls + 1)

\* The gateway's answer to perform_query is [request, stream]: request is
\* Ok or Err of the initial call; stream is what next() yields in turn, each
\* item Ok(batch) or Err(source), its end being the end of the stream.
\* PullAll is the while-let loop: [result, pulls], pulls the number of
\* next() calls made.
RECURSIVE PullAll(_, _, _)
PullAll(stream, batches, pulls) ==
    IF stream = <<>> THEN [result |-> Ok(batches), pulls |-> pulls + 1]
    ELSE IF ~stream[1].ok
    THEN [result |-> Err([kind |-> "RunningRemoteQuery", source |-> stream[1].err]),
          pulls |-> pulls + 1]
    ELSE PullAll(Tail(stream), Append(batches, stream[1].val), pulls + 1)

\* scrape_query: [result, gateway], gateway the requests made
scrape_query(client, db_name, query, answer) ==
    LET request == [api |-> "perform_query",
                    namespace_name |-> db_name, sql_query |-> query]
    IN  IF ~answer.request.ok
        THEN [result |-> Err([kind |-> "RunningRemoteQuery", source |-> answer.request.err]),
              gateway |-> <<request @@ [pulls |-> 0]>>]
        ELSE LET pulled == PullAll(answer.stream, <<>>, 0)
             IN  [result |-> pulled.result,
                  gateway |-> <<request @@ [pulls |-> pulled.pulls]>>]

NoDatabaseSelected == <<"E", "r", "r", "o", "r", ":", " ", "n", "o", " ", "d", "a", "t", "a", "b", "a", "s", "e", " ", "s", "e", "l", "e", "c", "t", "e", "d">>

NoDatabasePrinted ==
    <<"Error: no database selected.",
      "Hint: Run USE DATABASE <dbname> to select database">>

\* a variant of run_sql without the check for a selected database
run_sql_unguarded(self, sql, answer) ==
    LET db_name == IF self.query_engine = None THEN "" ELSE self.query_engine.db
        scraped == scrape_query(self.flight_client, db_name, sql, answer)
    IN  IF ~scraped.result.ok
        THEN Outcome(self, scraped.result, scraped.gateway, <<>>)
        ELSE Outcome(self, get_results(self, scraped.result.val),
                     scraped.gateway, <<>>)

run_sql(self, sql, answer) ==
    IF self.query_engine = None
    THEN Outcome(self, Ok(NoDatabaseSelected), <<>>, NoDatabasePrinted)
    ELSE LET scraped == scrape_query(self.flight_client, self.query_engine.db, sql, answer)
         IN  IF ~scraped.result.ok
             THEN Outcome(self, scraped.result, scraped.gateway, <<>>)
             ELSE Outcome(self, get_results(self, scraped.result.val),
                          scraped.gateway, <<>>)

print_sql(self, sql, answer, elapsed) ==
    IF self.query_engine = None
    THEN Outcome(self, Ok("unit"), <<>>, NoDatabasePrinted)
    ELSE LET scraped == scrape_query(self.flight_client, self.query_engine.db, sql, answer)
         IN  IF ~scraped.result.ok
             THEN Outcome(self, scraped.result, scraped.gateway, <<>>)
             ELSE LET batches == scraped.result.val
                      shown == print_results(self, batches)
                  IN  IF ~shown.result.ok
                      THEN Outcome(self, shown.result, scraped.gateway, <<>>)
                      ELSE Outcome(self, Ok("unit"), scraped.gateway,
                                   shown.printed \o
                                   <<"Returned " \o row_summary(batches)
                                        \o " in " \o elapsed>>)

NamespaceId == <<"n", "a", "m", "e", "s", "p", "a", "c", "e", "_", "i", "d">>

Name == <<"n", "a", "m", "e">>

\* a variant of list_namespaces that renders an empty listing when the
\* gateway fails
list_namespaces_swallowing(self, answer) ==
    LET namespaces == IF answer.ok THEN answer.val ELSE <<>>
        record_batch ==
            RecordBatch(<<NamespaceId, Name>>, "flat",
                        [i \in 1..Len(namespaces) |->
                            <<Dec(namespaces[i].id), namespaces[i].name>>])
    IN  Outcome(self, get_results(self, <<record_batch>>),
                <<[api |-> "get_namespaces"]>>, <<>>)

\* The gateway's answer to get_namespaces is Ok(namespaces), each with an
\* id and a name, or Err(source).
list_namespaces(self, answer) ==
    LET gateway == <<[api |-> "get_namespaces"]>>
    IN  IF ~answer.ok
        THEN Outcome(self, Err([kind |-> "LoadingRemoteState", source |-> answer.err]),
                     gateway, <<>>)
        ELSE LET namespaces == answer.val
                 record_batch ==
                    RecordBatch(<<NamespaceId, Name>>, "flat",
                                [i \in 1..Len(namespaces) |->
                                    <<Dec(namespaces[i].id), namespaces[i].name>>])
             IN  Outcome(self, get_results(self, <<record_batch>>), gateway, <<>>)

(***************************************************************************)
(* SpecBuild: NuIoxError::build applied to bounded inputs.                 *)
(***************************************************************************)
\* the text of the spec's scenario D
ScenarioD == <<".", ".", ".", " ", ",", " ", "d", "e", "t", "a", "i", "l", "s", ":", " ", "x", ",", " ", "m", "e", "s", "s", "a", "g", "e", ":", " ", "T", "a", "b", "l", "e", " ", "n", "o", "t", " ", "f", "o", "u", "n", "d", " ", "(", "s", "t", "a", "t", "u", "s", ":", " ", "4", "0", "4", ":", " ", "e", "x", "t", "r", "a", ")">>

\* the text of a tonic Status as the IOx flight client displays it
IoxTableNotFound == <<"s", "t", "a", "t", "u", "s", ":", " ", "N", "o", "t", "F", "o", "u", "n", "d", ",", " ", "m", "e", "s", "s", "a", "g", "e", ":", " ", "\"", "t", "a", "b", "l", "e", " ", "'", "c", "p", "u", "'", " ", "n", "o", "t", " ", "f", "o", "u", "n", "d", "\"", ",", " ", "d", "e", "t", "a", "i", "l", "s", ":", " ", "[", "]", ",", " ", "m", "e", "t", "a", "d", "a", "t", "a", ":", " ", "{", "}">>

RunningRemoteQueryPrefix == <<"E", "r", "r", "o", "r", " ", "r", "u", "n", "n", "i", "n", "g", " ", "r", "e", "m", "o", "t", "e", " ", "q", "u", "e", "r", "y", ":", " ">>

Snippets ==
    { <<"E", ":", " ">>, <<"(", "t", ";", ")">>, <<"4", "0", "4">> }

Pieces == {DETAILS, MESSAGE, STATUS} \cup Snippets

PieceSeqs == UNION { [1..n -> Pieces] : n \in 0..MaxParts }

BuildInputs ==
    { Concat(ps) : ps \in PieceSeqs }
        \cup {ScenarioD, RunningRemoteQueryPrefix \o IoxTableNotFound}

NotBuilt == [tag |-> "none"]

NoSummary == [tag |-> "none"]

NoClient == [tag |-> "dropped"]

Unset == [tag |-> "none"]

\* an invocation not yet made
IdleInvocation ==
    [pc |-> "idle", cmd |-> "", dbname |-> "", sql |-> "",
     runtime |-> 0, connection |-> 0, repl |-> NoClient,
     ops |-> 0, gateway |-> <<>>, rsql |-> Unset, returned |-> Unset,
     numofrecords |-> -1, handler |-> NotBuilt, parsed |-> Unset,
     outcome |-> Unset]

BridgeIdle ==
    /\ inv = [i \in 1..MaxInvocations |-> IdleInvocation]
    /\ runtimes = 0
    /\ connections = 0

InitBuild ==
    /\ b_data \in BuildInputs
    /\ b_out = NotBuilt
    /\ repl = Nuclient_new("connection")
    /\ last = [op |-> "new", args |-> <<>>, result |-> Ok("unit"),
               gateway |-> <<>>, printed |-> <<>>]
    /\ s_batches = <<>>
    /\ s_out = NoSummary
    /\ BridgeIdle

Build ==
    /\ b_out = NotBuilt
    /\ b_out' = NuIoxError_build(b_data)
    /\ UNCHANGED <<b_data, repl, last, s_batches, s_out, inv, runtimes, connections>>

NextBuild == Build

SpecBuild == InitBuild /\ [][NextBuild]_vars

(***************************************************************************)
(* The claim about NuIoxError::build, checked under SpecBuild.             *)
(***************************************************************************)
OccursAt(s, tag, i) ==
    i >= 1 /\ i + Len(tag) - 1 <= Len(s) /\ SubSeq(s, i, i + Len(tag) - 1) = tag

\* the first occurrence of tag in s at or after index from, 0 when none
FirstFrom(s, tag, from) ==
    IF \E i \in from..Len(s) : OccursAt(s, tag, i)
    THEN CHOOSE i \in from..Len(s) :
            OccursAt(s, tag, i) /\ \A j \in from..(i - 1) : ~OccursAt(s, tag, j)
    ELSE 0

Without(s, chars) == SelectSeq(s, LAMBDA c : c \notin chars)

\* the markers as build needs them: ", details: " occurs, ", message: "
\* occurs in the text before its first occurrence, and "status: " occurs
\* in the text before the first occurrence of that ", message: "
AtDetails(data) == FirstFrom(data, DETAILS, 1)

AtMessage(data) ==
    IF AtDetails(data) = 0 THEN 0
    ELSE FirstFrom(SubSeq(data, 1, AtDetails(data) - 1), MESSAGE, 1)

AtStatus(data) ==
    IF AtMessage(data) = 0 THEN 0
    ELSE FirstFrom(SubSeq(data, 1, AtMessage(data) - 1), STATUS, 1)

MarkersInBuildOrder(data) ==
    AtDetails(data) # 0 /\ AtMessage(data) # 0 /\ AtStatus(data) # 0

\* the markers in the order the claim gives: ", details: ", then
\* ", message: " after it, then "status: " after that
MarkersInClaimedOrder(data) ==
    LET d == FirstFrom(data, DETAILS, 1)
        m == IF d = 0 THEN 0 ELSE FirstFrom(data, MESSAGE, d + Len(DETAILS))
        st == IF m = 0 THEN 0 ELSE FirstFrom(data, STATUS, m + Len(MESSAGE))
    IN  d # 0 /\ m # 0 /\ st # 0

\* C2, as amended: build completes exactly when "status: " occurs before
\* the first ", message: " and that before the first ", details: "; then
\* header is the text before the first "status: " without its colons,
\* status the text from that "status: " up to the first ", message: ",
\* and message the text from that ", message: " up to the first
\* ", details: " without ( ) , " ; and '.  Otherwise, as on the text of
\* scenario D, an unwrap() panics.
C2_BuildExtracts ==
    b_out # NotBuilt =>
        IF MarkersInBuildOrder(b_data)
        THEN /\ b_out.tag = "built"
             /\ b_out.start = b_data
             /\ b_out.header =
                    Without(SubSeq(b_data, 1, AtStatus(b_data) - 1), {":"})
             /\ b_out.status =
                    SubSeq(b_data, AtStatus(b_data), AtMessage(b_data) - 1)
             /\ b_out.message =
                    Without(SubSeq(b_data, AtMessage(b_data), AtDetails(b_data) - 1),
                            {"(", ")", ",", "\"", ";", "'"})
        ELSE b_out = Panic /\ b_data \in BuildInputs

C2_Witness ==
    /\ b_data = RunningRemoteQueryPrefix \o IoxTableNotFound
    /\ b_out.tag = "built"
    /\ Flat(b_out.header) = "Error running remote query "
    /\ Flat(b_out.status) = "status: NotFound"
    /\ Flat(b_out.message) = " message: table cpu not found"

\* C2, as claimed: with the markers in the order ", details: ",
\* ", message: ", "status: ", build completes, and on the text of
\* scenario D message is "Table not found" and status is "404".
C2_AsClaimed ==
    (b_out # NotBuilt /\ MarkersInClaimedOrder(b_data)) =>
        /\ b_out.tag = "built"
        /\ b_data = ScenarioD =>
                /\ Flat(b_out.message) = "Table not found"
                /\ Flat(b_out.status) = "404"

(***************************************************************************)
(* Spec: one Nuclient and any sequence of its operations.                  *)
(***************************************************************************)
DbNames == {"bananas", "apples"}

Sqls == {"select * from cpu"}

FormatNames ==
    { <<"c", "s", "v">>, <<"C", "S", "V">>, <<"p", "r", "e", "t", "t", "y">>,
      <<"j", "s", "o", "n">>, <<"t", "s", "v">>, <<>> }

ConnectionRefused == <<"t", "c", "p", " ", "c", "o", "n", "n", "e", "c", "t", " ", "e", "r", "r", "o", "r">>

GatewaySources == {IoxTableNotFound, ConnectionRefused}

Column == <<"c">>

Batches ==
    { RecordBatch(<<Column>>, "flat", <<>>),
      RecordBatch(<<Column>>, "flat", << <<<<"7">>>> >>),
      RecordBatch(<<Column>>, "flat", << <<<<"8">>>>, <<<<"9">>>> >>),
      RecordBatch(<<Column>>, "nested", << <<<<"[", "]">>>> >>) }

StreamItems == {Ok(b) : b \in Batches} \cup {Err(ConnectionRefused)}

Streams == UNION { [1..n -> StreamItems] : n \in 0..MaxBatches }

QueryAnswers ==
    { [request |-> Err(src), stream |-> <<>>] : src \in GatewaySources }
        \cup { [request |-> Ok("stream"), stream |-> st] : st \in Streams }

Foo == <<"f", "o", "o">>

Bar == <<"b", "a", "r">>

NamespaceAnswers ==
    { Err(ConnectionRefused),
      Ok(<<>>),
      Ok(<<[id |-> 1, name |-> Foo], [id |-> 2, name |-> Bar]>>),
      Ok(<<[id |-> 12, name |-> Bar], [id |-> 1, name |-> Foo]>>) }

Elapsed == {"1.5ms", "2s"}

Connection == "connection"

Event(op, args, o) ==
    [op |-> op, args |-> args, result |-> o.result,
     gateway |-> o.gateway, printed |-> o.printed]

Init ==
    /\ repl = Nuclient_new(Connection)
    /\ last = [op |-> "new", args |-> <<>>, result |-> Ok("unit"),
               gateway |-> <<>>, printed |-> <<>>]
    /\ b_data = <<>>
    /\ b_out = NotBuilt
    /\ s_batches = <<>>
    /\ s_out = NoSummary
    /\ BridgeIdle

Others == UNCHANGED <<b_data, b_out, s_batches, s_out, inv, runtimes, connections>>

UseDatabase ==
    \E db_name \in DbNames :
        LET o == use_database(repl, db_name)
        IN  /\ repl' = o.self
            /\ last' = Event("use_database", <<db_name>>, o)
            /\ Others

SetOutputFormat ==
    \E requested_format \in FormatNames :
        LET o == set_output_format(repl, requested_format)
        IN  /\ repl' = o.self
            /\ last' = Event("set_output_format", <<requested_format>>, o)
            /\ Others

ListNamespaces ==
    \E answer \in NamespaceAnswers :
        LET o == list_namespaces(repl, answer)
        IN  /\ repl' = o.self
            /\ last' = Event("list_namespaces", <<answer>>, o)
            /\ Others

RunSql ==
    \E sql \in Sqls, answer \in QueryAnswers :
        LET o == run_sql(repl, sql, answer)
        IN  /\ repl' = o.self
            /\ last' = Event("run_sql", <<sql, answer>>, o)
            /\ Others

PrintSql ==
    \E sql \in Sqls, answer \in QueryAnswers, elapsed \in Elapsed :
        LET o == print_sql(repl, sql, answer, elapsed)
        IN  /\ repl' = o.self
            /\ last' = Event("print_sql", <<sql, answer, elapsed>>, o)
            /\ Others

Next ==
    \/ UseDatabase
    \/ SetOutputFormat
    \/ ListNamespaces
    \/ RunSql
    \/ PrintSql

Spec == Init /\ [][Next]_vars

(***************************************************************************)
(* The claims about the Nuclient, checked under Spec.                      *)
(***************************************************************************)
\* the batches a stream without error yields, in the order it yields them
YieldedBatches(stream) == [i \in 1..Len(stream) |-> stream[i].val]

\* the index of the first error a stream yields, 0 when it yields none
FirstStreamError(stream) ==
    LET errs == {i \in 1..Len(stream) : ~stream[i].ok}
    IN  IF errs = {} THEN 0 ELSE CHOOSE i \in errs : \A j \in errs : i <= j

IsQuery(op) == op \in {"run_sql", "print_sql"}

\* C1: with no database selected, run_sql returns Ok("Error: no database
\* selected") and print_sql returns Ok(()), for any sql; neither makes a
\* gateway call, and the client (target and format) is left as it was.
C1_UnselectedShortCircuits ==
    [][ (repl.query_engine = None /\ IsQuery(last'.op)) =>
            /\ last'.result.ok
            /\ last'.op = "run_sql" =>
                    Flat(last'.result.val) = "Error: no database selected"
            /\ last'.op = "print_sql" => last'.result.val = "unit"
            /\ last'.gateway = <<>>
            /\ repl' = repl ]_vars

C1_Witness ==
    /\ repl.query_engine = None
    /\ last.op = "run_sql"
    /\ last.args[1] = "select * from cpu"
    /\ last.result = Ok(NoDatabaseSelected)
    /\ last.gateway = <<>>

\* the format a name stands for, "" for a name that is not recognized
FormatNamed(name) ==
    LET n == Flat(name)
    IN  CASE n \in {"csv", "CSV"} -> "Csv"
          [] n = "pretty" -> "Pretty"
          [] n = "json" -> "Json"
          [] OTHER -> ""

\* the one batch list_namespaces renders for a successful answer
ListedBatch(namespaces) ==
    [cols |-> <<NamespaceId, Name>>, kind |-> "flat",
     rows |-> [i \in 1..Len(namespaces) |->
                 <<Dec(namespaces[i].id), namespaces[i].name>>]]

\* what a step renders: the batches of a successful list_namespaces or of
\* a run_sql whose stream ended without error (Rendered.some = FALSE when
\* the step renders nothing)
Rendered(ev, target) ==
    CASE ev.op = "list_namespaces" /\ ev.args[1].ok ->
            [some |-> TRUE, batches |-> <<ListedBatch(ev.args[1].val)>>]
      [] ev.op = "run_sql" /\ target # None /\ ev.args[2].request.ok
            /\ FirstStreamError(ev.args[2].stream) = 0 ->
            [some |-> TRUE, batches |-> YieldedBatches(ev.args[2].stream)]
      [] OTHER -> [some |-> FALSE]

\* C3: set_output_format with a recognized name succeeds and sets the
\* format, with an unrecognized name it fails with SettingFormat carrying
\* the name and leaves format and target as they were; the format changes
\* in no other step, and every render (list_namespaces, run_sql) formats
\* with the format last set.
C3_FormatSelection ==
    [][ /\ last'.op = "set_output_format" =>
              LET name == last'.args[1]
              IN  IF FormatNamed(name) # ""
                  THEN /\ last'.result.ok
                       /\ repl'.output_format = FormatNamed(name)
                       /\ repl'.query_engine = repl.query_engine
                  ELSE /\ ~last'.result.ok
                       /\ last'.result.err.kind = "SettingFormat"
                       /\ last'.result.err.requested_format = name
                       /\ repl' = repl
        /\ last'.op # "set_output_format" =>
              repl'.output_format = repl.output_format
        /\ Rendered(last', repl.query_engine).some =>
              LET f == Format(repl.output_format,
                              Rendered(last', repl.query_engine).batches)
              IN  IF f.ok THEN last'.result = Ok(f.val)
                  ELSE ~last'.result.ok ]_vars

C3_Witness ==
    /\ last.op = "set_output_format"
    /\ Flat(last.args[1]) = "tsv"
    /\ ~last.result.ok
    /\ repl.output_format = "Json"
    /\ repl.query_engine = Remote("bananas")

\* C4: the target is Unselected at construction and changes only in a
\* use_database step, which sets it to Remote of the name given; no other
\* step, succeeding or failing, alters it, and it never returns to
\* Unselected.
C4_TargetOnlyBySelect ==
    /\ repl.query_engine = None
    /\ [][ /\ last'.op = "use_database" =>
                 repl'.query_engine = Remote(last'.args[1])
           /\ last'.op # "use_database" =>
                 repl'.query_engine = repl.query_engine
           /\ repl.query_engine # None => repl'.query_engine # None ]_vars

C4_Witness ==
    /\ repl.query_engine = Remote("apples")
    /\ last.op = "run_sql"
    /\ ~last.result.ok

\* C7: run_sql on a selected database pulls the stream until it ends and
\* renders the batches in the order yielded; an error of the initial
\* request or of any pull makes it fail with RunningRemoteQuery, with no
\* text for the batches pulled before, and nothing is pulled after it.
C7_ScrapeInOrderOrFail ==
    (last.op = "run_sql" /\ repl.query_engine # None) =>
        LET answer == last.args[2]
            k == FirstStreamError(answer.stream)
        IN  /\ Len(last.gateway) = 1
            /\ last.gateway[1].namespace_name = repl.query_engine.db
            /\ last.gateway[1].sql_query = last.args[1]
            /\ IF ~answer.request.ok
               THEN /\ last.result = Err([kind |-> "RunningRemoteQuery",
                                          source |-> answer.request.err])
                    /\ last.gateway[1].pulls = 0
               ELSE IF k # 0
               THEN /\ last.result = Err([kind |-> "RunningRemoteQuery",
                                          source |-> answer.stream[k].err])
                    /\ last.gateway[1].pulls = k
               ELSE /\ last.gateway[1].pulls = Len(answer.stream) + 1
                    /\ LET f == Format(repl.output_format,
                                       YieldedBatches(answer.stream))
                       IN  IF f.ok THEN last.result = Ok(f.val)
                           ELSE last.result.err.kind = "FormattingResults"

C7_Witness ==
    /\ last.op = "run_sql"
    /\ repl.query_engine # None
    /\ last.args[2].request.ok
    /\ FirstStreamError(last.args[2].stream) = 2
    /\ ~last.result.ok

\* a render under Csv fails when a batch has nested columns
CannotRender(format, batches) ==
    format = "Csv" /\ \E i \in 1..Len(batches) : batches[i].kind = "nested"

\* C8: seen by the caller of the client operation, a gateway failure of
\* list_namespaces is Err(LoadingRemoteState), one of run_sql or print_sql
\* (request or stream) is Err(RunningRemoteQuery), a render failure is
\* Err(FormattingResults) with nothing printed; none is an Ok value, and
\* the failed operation made its gateway request once.
C8_FailuresPropagate ==
    /\ (last.op = "list_namespaces" /\ ~last.args[1].ok) =>
            /\ last.result = Err([kind |-> "LoadingRemoteState",
                                  source |-> last.args[1].err])
            /\ Len(last.gateway) = 1
    /\ (IsQuery(last.op) /\ repl.query_engine # None) =>
            LET answer == last.args[2]
                k == FirstStreamError(answer.stream)
            IN  /\ (~answer.request.ok \/ k # 0) =>
                        /\ ~last.result.ok
                        /\ last.result.err.kind = "RunningRemoteQuery"
                        /\ Len(last.gateway) = 1
                        /\ last.printed = <<>>
                /\ (answer.request.ok /\ k = 0
                        /\ CannotRender(repl.output_format,
                                        YieldedBatches(answer.stream))) =>
                        /\ ~last.result.ok
                        /\ last.result.err.kind = "FormattingResults"
                        /\ last.printed = <<>>
    /\ (last.op = "list_namespaces" /\ last.args[1].ok) =>
            last.result.ok

C8_Witness ==
    /\ last.op = "list_namespaces"
    /\ last.result = Err([kind |-> "LoadingRemoteState",
                          source |-> ConnectionRefused])

(***************************************************************************)
(* SpecSummary: row_summary applied to bounded sequences of batches.       *)
(***************************************************************************)
BatchOfRows(n) ==
    RecordBatch(<<Column>>, "flat", [i \in 1..n |-> <<<<"7">>>>])

SummaryInputs ==
    UNION { [1..n -> {BatchOfRows(r) : r \in 0..MaxRows}] : n \in 0..MaxSummaryBatches }

InitSummary ==
    /\ s_batches \in SummaryInputs
    /\ s_out = NoSummary
    /\ repl = Nuclient_new(Connection)
    /\ last = [op |-> "new", args |-> <<>>, result |-> Ok("unit"),
               gateway |-> <<>>, printed |-> <<>>]
    /\ b_data = <<>>
    /\ b_out = NotBuilt
    /\ BridgeIdle

Summarize ==
    /\ s_out = NoSummary
    /\ s_out' = [tag |-> "summary", text |-> row_summary(s_batches)]
    /\ UNCHANGED <<s_batches, repl, last, b_data, b_out, inv, runtimes, connections>>

NextSummary == Summarize

SpecSummary == InitSummary /\ [][NextSummary]_vars

(***************************************************************************)
(* The claim about row_summary, checked under SpecSummary.                 *)
(***************************************************************************)
DigitText == <<"0", "1", "2", "3", "4", "5", "6", "7", "8", "9">>

\* the decimal text of a number below 100
Decimal2(n) ==
    (IF n >= 10 THEN DigitText[(n \div 10) + 1] ELSE "") \o DigitText[(n % 10) + 1]

TotalRows(batches) == Len(AllRows(batches))

\* C10: row_summary is "no rows" for a total of 0 rows over all batches,
\* "1 row" for 1 and "N rows" for a total N above 1, whatever the split of
\* the rows into batches.
C10_RowSummary ==
    s_out # NoSummary =>
        LET total == TotalRows(s_batches)
        IN  /\ total < 100
            /\ total = 0 => s_out.text = "no rows"
            /\ total = 1 => s_out.text = "1 row"
            /\ total > 1 => s_out.text = Decimal2(total) \o " rows"

C10_Witness ==
    /\ s_out # NoSummary
    /\ Len(s_batches) = 3
    /\ num_rows(s_batches[1]) = 0
    /\ TotalRows(s_batches) = 5
    /\ s_out.text = "5 rows"

(***************************************************************************)
(* sql.rs and namespace.rs: the commands ioxsql and ioxnamespace.          *)
(***************************************************************************)
LoadingRemoteStatePrefix == <<"E", "r", "r", "o", "r", " ", "l", "o", "a", "d", "i", "n", "g", " ", "r", "e", "m", "o", "t", "e", " ", "s", "t", "a", "t", "e", ":", " ">>

FormattingResultsPrefix == <<"E", "r", "r", "o", "r", " ", "f", "o", "r", "m", "a", "t", "t", "i", "n", "g", " ", "r", "e", "s", "u", "l", "t", "s", ":", " ">>

CsvArrowText == <<"A", "r", "r", "o", "w", " ", "e", "r", "r", "o", "r">>

\* error.to_string(): the snafu display of nuclient::Error
ErrorToString(e) ==
    CASE e.kind = "RunningRemoteQuery" -> RunningRemoteQueryPrefix \o e.source
      [] e.kind = "LoadingRemoteState" -> LoadingRemoteStatePrefix \o e.source
      [] e.kind = "FormattingResults" -> FormattingResultsPrefix \o CsvArrowText

\* the indices at which a non-empty line of the text starts
LineStarts(text) ==
    {i \in 1..Len(text) :
        text[i] # "\n" /\ (i = 1 \/ text[i - 1] = "\n")}

\* util::number_of_csv_records: the text is read as CSV with a header row
\* and the data rows are counted (empty lines are no rows)
number_of_csv_records(text) ==
    LET rows == Cardinality(LineStarts(text))
    IN  Ok(IF rows > 0 THEN rows - 1 ELSE 0)

\* NuIoxErrorHandler::new: [ctype, error, nu_iox_error], or the panic of
\* NuIoxError::build
NuIoxErrorHandler_new(ctype, error) ==
    LET nu_iox_error == NuIoxError_build(error)
    IN  IF nu_iox_error = Panic THEN Panic
        ELSE [tag |-> "handler", ctype |-> ctype, error |-> error,
              nu_iox_error |-> nu_iox_error]

nu_iox_error_check(handler) == Ok(handler.error)

nu_iox_error_generic(handler) ==
    Err([kind |-> "GenericError",
         msg |-> handler.nu_iox_error.message,
         label |-> handler.nu_iox_error.error_type])

\* util::get_runtime(num_threads): a runtime created for the call, the
\* next after those created so far
get_runtime(created) == created + 1

\* a variant of the connection builder that hands out one cached connection
BuilderBuild_cached(built) == 1

\* Builder::default().build(url): a connection established for the call,
\* the next after those built so far
BuilderBuild(built) == built + 1

\* variants of the match on the number of records: d >= 0, and d > 1
not_csv_data_from_zero(d) == ~(d >= 0)

not_csv_data_above_one(d) == ~(d > 1)

\* match numofrecords.unwrap() { d if d > 0 => false, _ => true }
not_csv_data_of(d) == ~(d > 0)

\* Ioxsql::run from the returned sql_result on: [numofrecords, handler,
\* parsed, outcome].  parsed is the text handed to from_delimited_data.
IoxsqlClassify(sql_result) ==
    LET text == sql_result.val
        numofrecords == number_of_csv_records(text)
        not_csv_data == not_csv_data_of(numofrecords.val)
    IN  IF not_csv_data
        THEN LET nierrorhandler == NuIoxErrorHandler_new("Sql", text)
             IN  IF nierrorhandler = Panic
                 THEN [numofrecords |-> numofrecords.val, handler |-> Panic,
                       parsed |-> Unset, outcome |-> [tag |-> "panic"]]
                 ELSE IF ~nu_iox_error_check(nierrorhandler).ok
                 THEN [numofrecords |-> numofrecords.val, handler |-> nierrorhandler,
                       parsed |-> Unset, outcome |-> [tag |-> "panic"]]
                 ELSE [numofrecords |-> numofrecords.val, handler |-> nierrorhandler,
                       parsed |-> Unset,
                       outcome |-> [tag |-> "shell_error",
                                    error |-> nu_iox_error_generic(nierrorhandler).err]]
        ELSE [numofrecords |-> numofrecords.val, handler |-> NotBuilt,
              parsed |-> [tag |-> "text", text |-> text],
              outcome |-> [tag |-> "parsed"]]

(***************************************************************************)
(* SpecBridge: up to MaxInvocations invocations of ioxsql and ioxnamespace,*)
(* their steps interleaved.                                                *)
(***************************************************************************)
MultiLineError == <<"r", "p", "c", " ", "e", "r", "r", "o", "r", "\n", "r", "e", "t", "r", "y", ",", "l", "a", "t", "e", "r">>

BridgeQueryAnswers ==
    { [request |-> Err(IoxTableNotFound), stream |-> <<>>],
      [request |-> Err(MultiLineError), stream |-> <<>>],
      [request |-> Ok("stream"),
       stream |-> <<Ok(RecordBatch(<<Column>>, "flat", <<>>))>>],
      [request |-> Ok("stream"),
       stream |-> <<Ok(RecordBatch(<<Column>>, "flat", << <<<<"7">>>> >>)),
                    Ok(RecordBatch(<<Column>>, "flat", << <<<<"8">>>>, <<<<"9">>>> >>))>>] }

BridgeNamespaceAnswers ==
    { Err(ConnectionRefused),
      Ok(<<[id |-> 1, name |-> Foo], [id |-> 2, name |-> Bar]>>) }

InitBridge ==
    /\ BridgeIdle
    /\ repl = Nuclient_new(Connection)
    /\ last = [op |-> "new", args |-> <<>>, result |-> Ok("unit"),
               gateway |-> <<>>, printed |-> <<>>]
    /\ b_data = <<>>
    /\ b_out = NotBuilt
    /\ s_batches = <<>>
    /\ s_out = NoSummary

BridgeOthers == UNCHANGED <<repl, last, b_data, b_out, s_batches, s_out>>

\* a panic unwinds the invocation: nothing of it is left but the command
Panicked(rec) ==
    [IdleInvocation EXCEPT !.pc = "done", !.cmd = rec.cmd,
                           !.outcome = [tag |-> "panic"]]

\* Ioxsql::run / Ioxnamespace::run up to Nuclient::new: the arguments are
\* read, get_runtime creates a runtime for the call, block_on builds a
\* connection and the client is constructed on it.  When get_runtime fails
\* tokio_block_* returns Err and the command's unwrap() panics; when the
\* connection cannot be built, expect("client should be valid") panics.
Enter(i) ==
    /\ inv[i].pc = "idle"
    /\ \E cmd \in {"ioxsql", "ioxnamespace"}, dbname \in DbNames, sql \in Sqls :
        LET called == [inv[i] EXCEPT
                            !.cmd = cmd,
                            !.dbname = IF cmd = "ioxsql" THEN dbname ELSE "",
                            !.sql = IF cmd = "ioxsql" THEN sql ELSE ""]
        IN  \/ /\ runtimes' = runtimes + 1
               /\ connections' = connections + 1
               /\ inv' = [inv EXCEPT ![i] =
                            [called EXCEPT
                                !.pc = "created",
                                !.runtime = get_runtime(runtimes),
                                !.connection = BuilderBuild(connections),
                                !.repl = Nuclient_new(BuilderBuild(connections))]]
            \/ /\ runtimes' = runtimes + 1
               /\ connections' = connections
               /\ inv' = [inv EXCEPT ![i] = Panicked(called)]
            \/ /\ runtimes' = runtimes
               /\ connections' = connections
               /\ inv' = [inv EXCEPT ![i] = Panicked(called)]
    /\ BridgeOthers

\* repl.use_database(dbname) (ioxsql only) and repl.set_output_format("csv"),
\* whose Result is dropped
Configure(i) ==
    /\ inv[i].pc = "created"
    /\ LET used == IF inv[i].cmd = "ioxsql"
                   THEN use_database(inv[i].repl, inv[i].dbname).self
                   ELSE inv[i].repl
           formatted == set_output_format(used, <<"c", "s", "v">>).self
       IN  inv' = [inv EXCEPT ![i] = [inv[i] EXCEPT !.pc = "ready", !.repl = formatted]]
    /\ UNCHANGED <<runtimes, connections>>
    /\ BridgeOthers

\* tokio_block_sql from run_sql on: Ok(res) => res, Err(error) =>
\* error.to_string(); the client, connection and runtime are dropped as
\* the function returns
QuerySql(i) ==
    /\ inv[i].pc = "ready"
    /\ inv[i].cmd = "ioxsql"
    /\ \E answer \in BridgeQueryAnswers :
        LET o == run_sql(inv[i].repl, inv[i].sql, answer)
            sql_result == IF o.result.ok THEN o.result.val
                          ELSE ErrorToString(o.result.err)
        IN  inv' = [inv EXCEPT ![i] =
                        [inv[i] EXCEPT !.pc = "returned",
                                       !.repl = NoClient,
                                       !.runtime = 0,
                                       !.connection = 0,
                                       !.ops = @ + 1,
                                       !.gateway = @ \o o.gateway,
                                       !.rsql = o.result,
                                       !.returned = Ok(sql_result)]]
    /\ UNCHANGED <<runtimes, connections>>
    /\ BridgeOthers

\* tokio_block_namespace from list_namespaces on: .expect("namespaces")
QueryNamespace(i) ==
    /\ inv[i].pc = "ready"
    /\ inv[i].cmd = "ioxnamespace"
    /\ \E answer \in BridgeNamespaceAnswers :
        LET o == list_namespaces(inv[i].repl, answer)
            ran == [inv[i] EXCEPT !.ops = @ + 1,
                                  !.gateway = @ \o o.gateway,
                                  !.rsql = o.result]
        IN  inv' = [inv EXCEPT ![i] =
                        IF o.result.ok
                        THEN [ran EXCEPT !.pc = "returned", !.repl = NoClient,
                                         !.runtime = 0, !.connection = 0,
                                         !.returned = Ok(o.result.val)]
                        ELSE Panicked(ran)]
    /\ UNCHANGED <<runtimes, connections>>
    /\ BridgeOthers

\* Ioxsql::run after tokio_block_sql
FinishSql(i) ==
    /\ inv[i].pc = "returned"
    /\ inv[i].cmd = "ioxsql"
    /\ LET c == IoxsqlClassify(inv[i].returned)
       IN  inv' = [inv EXCEPT ![i] =
                        [inv[i] EXCEPT !.pc = "done",
                                       !.numofrecords = c.numofrecords,
                                       !.handler = c.handler,
                                       !.parsed = c.parsed,
                                       !.outcome = c.outcome]]
    /\ UNCHANGED <<runtimes, connections>>
    /\ BridgeOthers

\* Ioxnamespace::run after tokio_block_namespace
FinishNamespace(i) ==
    /\ inv[i].pc = "returned"
    /\ inv[i].cmd = "ioxnamespace"
    /\ inv' = [inv EXCEPT ![i] =
                    [inv[i] EXCEPT !.pc = "done",
                                   !.parsed = [tag |-> "text", text |-> inv[i].returned.val],
                                   !.outcome = [tag |-> "parsed"]]]
    /\ UNCHANGED <<runtimes, connections>>
    /\ BridgeOthers

NextBridge ==
    \E i \in 1..MaxInvocations :
        \/ Enter(i)
        \/ Configure(i)
        \/ QuerySql(i)
        \/ QueryNamespace(i)
        \/ FinishSql(i)
        \/ FinishNamespace(i)

SpecBridge == InitBridge /\ [][NextBridge]_vars

(***************************************************************************)
(* The claims about the command paths, checked under SpecBridge.           *)
(***************************************************************************)
Classified(r) == r.cmd = "ioxsql" /\ r.pc = "done" /\ r.numofrecords # -1

\* C5: in ioxsql the text is handed to from_delimited_data only after its
\* data rows were counted and only when the count is above zero; when the
\* count is zero, as for a valid query without rows, the invocation ends
\* in an error (the GenericError, or the panic of an unwrap() in build)
\* and the text never reaches from_delimited_data.
C5_ZeroRowsNeverParsed ==
    \A i \in 1..MaxInvocations :
        LET r == inv[i]
        IN  r.cmd = "ioxsql" =>
                /\ r.pc # "done" => r.parsed = Unset
                /\ r.parsed # Unset => Classified(r) /\ r.numofrecords > 0
                /\ (Classified(r) /\ r.numofrecords = 0) =>
                        /\ r.outcome.tag \in {"shell_error", "panic"}
                        /\ r.parsed = Unset
                /\ (r.pc = "done" /\ r.returned # Unset
                        /\ Flat(r.returned.val) = "c\n") =>
                        r.numofrecords = 0

C5_Witness ==
    \E i \in 1..MaxInvocations :
        /\ Classified(inv[i])
        /\ inv[i].rsql.ok
        /\ Flat(inv[i].returned.val) = "c\n"
        /\ inv[i].numofrecords = 0
        /\ inv[i].outcome.tag = "panic"
        /\ inv[i].parsed = Unset

\* C6: in ioxsql, for a returned text with at least one data row no error
\* record is built, no error is raised, and the text handed to
\* from_delimited_data is the text tokio_block_sql returned, which is the
\* text run_sql returned when run_sql succeeded.
C6_DataPassesThrough ==
    \A i \in 1..MaxInvocations :
        LET r == inv[i]
        IN  (Classified(r) /\ r.numofrecords > 0) =>
                /\ r.handler = NotBuilt
                /\ r.outcome.tag = "parsed"
                /\ r.parsed = [tag |-> "text", text |-> r.returned.val]
                /\ r.rsql.ok => r.parsed.text = r.rsql.val

C6_Witness ==
    \E i \in 1..MaxInvocations :
        /\ Classified(inv[i])
        /\ inv[i].rsql.ok
        /\ inv[i].numofrecords = 3
        /\ inv[i].handler = NotBuilt
        /\ Flat(inv[i].parsed.text) = "c\n7\n8\n9\n"

InProgress(r) == r.pc \in {"created", "ready"}

\* C9: every invocation holds a runtime, a connection and a client of its
\* own, no two invocations in progress share one; its client starts
\* Unselected with the default format, is then set to the invocation's own
\* database (ioxsql) and to CSV, runs one query operation, against that
\* database, and is dropped with the runtime and the connection when the
\* operation returns.
C9_InvocationsIsolated ==
    \A i \in 1..MaxInvocations :
        LET r == inv[i]
        IN  /\ r.ops <= 1
            /\ r.pc = "created" =>
                    /\ r.repl.query_engine = None
                    /\ r.repl.output_format = "Pretty"
            /\ r.pc = "ready" =>
                    /\ r.repl.output_format = "Csv"
                    /\ r.repl.query_engine =
                            IF r.cmd = "ioxsql" THEN Remote(r.dbname) ELSE None
            /\ InProgress(r) =>
                    /\ r.ops = 0
                    /\ r.runtime >= 1
                    /\ r.connection >= 1
                    /\ r.repl.flight_client = r.connection
                    /\ r.repl.namespace_client = r.connection
                    /\ \A j \in (1..MaxInvocations) \ {i} :
                            InProgress(inv[j]) =>
                                /\ inv[j].runtime # r.runtime
                                /\ inv[j].connection # r.connection
            /\ r.pc \in {"returned", "done"} =>
                    /\ r.repl = NoClient
                    /\ r.runtime = 0
                    /\ r.connection = 0
            /\ r.pc = "returned" => r.ops = 1 /\ Len(r.gateway) = 1
            /\ (r.cmd = "ioxsql" /\ r.gateway # <<>>) =>
                    /\ r.gateway[1].namespace_name = r.dbname
                    /\ r.gateway[1].sql_query = r.sql
            /\ (r.rsql # Unset /\ r.rsql.ok) =>
                    Flat(r.returned.val) \in
                        {"c\n", "c\n7\n8\n9\n", "namespace_id,name\n1,foo\n2,bar\n"}

C9_Witness ==
    \E i, j \in 1..MaxInvocations :
        /\ inv[i].cmd = "ioxsql"
        /\ inv[i].pc = "ready"
        /\ inv[i].repl.query_engine = Remote("bananas")
        /\ inv[j].pc = "created"
        /\ inv[j].repl.query_engine = None
        /\ inv[j].connection = 2

=============================================================================
